---- MODULE Spec2Model ----
(***************************************************************************)
(* Model of core/zmq_router.py (class ZmqRouter): the per-broker channel   *)
(* maps and the poller, the socket control queue, the receive loop, the    *)
(* request/response correlator (send_command_to_broker) and stop().        *)
(*                                                                         *)
(* Everything runs on one asyncio event loop, so a coroutine runs          *)
(* atomically between two awaits that suspend.  The receive loop suspends  *)
(* in poller.poll() and in socket.recv(); a caller of                      *)
(* send_command_to_broker suspends in wait_for(event.wait(), 5.0); stop()  *)
(* suspends in wait_for(queue.join(), 2.0).                                *)
(*                                                                         *)
(* Python dicts are functions whose DOMAIN is the set of keys present.     *)
(***************************************************************************)
EXTENDS Naturals, Sequences, FiniteSets, TLC

VARIABLES
    running,      \* self._running
    clients,      \* self._clients : claimed broker_key -> key of the socket it came in on
    responses,    \* self._responses : request_id -> envelope
    events,       \* self._response_events : request_id -> the Event object (named by its creator)
    woken,        \* callers whose Event is set and who have not resumed yet, in the order set
    maps,         \* the five socket dicts, maps[role] : broker_key -> socket
    poller,       \* sockets registered with self._poller
    queue,        \* self._socket_control_queue (items not yet taken)
    unfinished,   \* the queue's unfinished-task count (put +1, task_done -1)
    loopPc,       \* position of _receive_loop: "start", "poll", "drain", "recv", "exited"
    socks,        \* the dict returned by the last poll: ready sockets still to be read
    call,         \* call[c] : the state of caller c of send_command_to_broker
    stopPc,       \* position of stop(): "idle", "joining", "done"
    ctxTerm,      \* self.context.term() has been called
    got,          \* history: got[c], the last RESPONSE with c's request id processed while c waits
    reg,          \* history: reg[k], "registered" once a REGISTER claimed k, "reconnected"
                  \* once a CONNECT for k was applied after that and no REGISTER since
    frame,        \* history: the last receive of the current iteration, what it yielded
                  \* and what _process_message forwarded to the message handler
    iso,          \* history: iso[c], a receive failed on a socket of another key while c waits
    wire,         \* one received text on its way through the frame repair and the decoder
    ids,          \* the clock and the request ids send_command_to_broker has made so far
    handler,      \* one envelope on its way through handle_zmq_message
    mgr           \* the BrokerManager: its registry, its flags, its processes

vars == <<running, clients, responses, events, woken, maps, poller, queue,
          unfinished, loopPc, socks, call, stopPc, ctxTerm, got, reg, frame, iso, wire,
          ids, handler, mgr>>

routerVars == <<running, clients, responses, events, woken, maps, poller>>
loopVars   == <<loopPc, socks>>
stopVars   == <<stopPc, ctxTerm>>
histVars   == <<got, reg>>
obsVars    == <<frame, iso, wire, ids, handler, mgr>>
pureVars   == <<wire, ids, handler, mgr>>

(***************************************************************************)
(* Bounds of the model.                                                    *)
(***************************************************************************)
MaxQueue == 1     \* commands outside callers may have waiting in the queue
MaxBurst == 2     \* the same, where the order of the queue is what is checked
MaxReady == 1     \* sockets one poll reports ready
MaxLen   == 3     \* tokens of a received text
MaxTime  == 3     \* the clock, in half seconds
MaxCalls == 2     \* request ids made
MaxLost  == 1     \* commands whose application raised
MaxBothReady == 2 \* sockets one poll reports ready, where two are needed

(***************************************************************************)
(* Values.                                                                 *)
(***************************************************************************)
Keys    == {"A", "B"}
NoKey   == ""                 \* a falsy broker_key / an absent broker_key field
Rids    == {"r1", "r2"}
NoRid   == ""                 \* an absent (or null) request_id field
Callers == {"c1", "c2"}

\* The order of the maps in _teardown_single_broker_sockets and _receive_loop.
Roles == <<"AdminPort", "DataPort", "LivePort", "TradePort", "StrPort">>
RoleSet == {Roles[i] : i \in 1..Len(Roles)}
\* Roles send_command_to_broker can address.
SendRoles == {"AdminPort", "DataPort", "TradePort"}

\* A port of a broker config: "ok" connects, "bad" makes connect raise
\* zmq.ZMQError, "none" is a missing (falsy) port.
PortKinds == {"ok", "bad", "none"}
CfgTwo   == [r \in RoleSet |->
               CASE r = "AdminPort" -> "ok"
                 [] r = "DataPort"  -> "ok"
                 [] r = "LivePort"  -> "none"
                 [] r = "TradePort" -> "bad"
                 [] OTHER           -> "none"]
CfgMixed == [r \in RoleSet |->
               CASE r = "AdminPort" -> "none"
                 [] r = "DataPort"  -> "bad"
                 [] r = "LivePort"  -> "ok"
                 [] r = "TradePort" -> "ok"
                 [] OTHER           -> "ok"]
Configs == {CfgTwo, CfgMixed}

\* Socket objects.  A socket is named by the key and role it was created for
\* and the generation of the setup that created it; the name only serves to
\* tell objects apart.
Gens == 0..2
Sockets == Keys \X RoleSet \X Gens

\* Dict helpers.
Put(f, k, v) == [x \in DOMAIN f \cup {k} |-> IF x = k THEN v ELSE f[x]]
Del(f, k)    == [x \in DOMAIN f \ {k} |-> f[x]]
EmptyDict    == [x \in {} |-> x]
Range(q)     == {q[i] : i \in DOMAIN q}

MapSockets(m) == UNION {{m[r][k] : k \in DOMAIN m[r]} : r \in RoleSet}
OpenKeys(m)   == UNION {DOMAIN m[r] : r \in RoleSet}

(***************************************************************************)
(* Envelopes: the fields _process_message reads.                           *)
(***************************************************************************)
Envelope(t, ev, bk, rid, st) ==
    [type |-> t, event |-> ev, broker_key |-> bk, request_id |-> rid, status |-> st]

\* The results send_command_to_broker builds itself.
ErrorResult(msg) == [type |-> "RESULT", event |-> msg, broker_key |-> NoKey,
                     request_id |-> NoRid, status |-> "ERROR"]


\* No text is on its way through the decoder.
NoWire == [stage |-> "idle", raw |-> <<>>, text |-> <<>>, data |-> <<>>]

\* No request id made yet; the clock stands at 0.
NoIds == [now |-> 0, issued |-> <<>>]

\* No envelope is on its way through the message handler.
NoHandled == [stage |-> "idle", msg |-> <<>>]

(***************************************************************************)
(* Commands of the socket control queue.                                   *)
(***************************************************************************)
CfgNone == [r \in RoleSet |-> "none"]
ConnectCmd(k, cfg) == [kind |-> "CONNECT", key |-> k, config |-> cfg]
DisconnectCmd(k)   == [kind |-> "DISCONNECT", key |-> k, config |-> CfgNone]

(***************************************************************************)
(* Channel lifecycle.  A channel state is [maps, poller].                  *)
(***************************************************************************)
\* Variants used to test the properties: a teardown that closes without
\* unregistering, and one that tears every key down.
TeardownNoUnregister(st, k) ==
    [maps   |-> [r \in RoleSet |-> Del(st.maps[r], k)],
     poller |-> st.poller]
TeardownAll(st, k) ==
    [maps   |-> [r \in RoleSet |-> EmptyDict],
     poller |-> {}]

\* _teardown_single_broker_sockets: pops the key from each of the five dicts;
\* a popped socket is unregistered from the poller and closed.
Teardown(st, k) ==
    [maps   |-> [r \in RoleSet |-> Del(st.maps[r], k)],
     poller |-> st.poller \ {st.maps[r][k] : r \in {x \in RoleSet : k \in DOMAIN st.maps[x]}}]

\* context.socket(...) makes new objects, distinct from every socket
\* something still refers to: the generation of one setup's sockets.
NewGen(k, inUse) ==
    LET free == {g \in Gens : \A r \in RoleSet : <<k, r, g>> \notin inUse}
    IN  IF free = {} THEN 0 ELSE CHOOSE g \in free : \A h \in free : g <= h

\* One role of _setup_single_broker_sockets: a missing port is skipped; a
\* socket whose connect raises zmq.ZMQError is closed and neither registered
\* nor stored; otherwise the socket is registered and then stored.
SetupRole(st, k, r, port, g) ==
    IF port = "ok"
    THEN [maps   |-> [st.maps EXCEPT ![r] = Put(st.maps[r], k, <<k, r, g>>)],
          poller |-> st.poller \cup {<<k, r, g>>}]
    ELSE st

\* Variant used to test the properties: the setup stops at the first role
\* that has no port or fails to connect.
RECURSIVE SetupStopAtFailure(_, _, _, _, _)
SetupStopAtFailure(st, k, cfg, g, i) ==
    IF i > Len(Roles) \/ cfg[Roles[i]] # "ok" THEN st
    ELSE SetupStopAtFailure(SetupRole(st, k, Roles[i], cfg[Roles[i]], g), k, cfg, g, i + 1)

\* The roles i.. of a setup, in order.
RECURSIVE SetupFrom(_, _, _, _, _)
SetupFrom(st, k, cfg, g, i) ==
    IF i > Len(Roles) THEN st
    ELSE SetupFrom(SetupRole(st, k, Roles[i], cfg[Roles[i]], g), k, cfg, g, i + 1)

\* Variant used to test the properties: a setup without the teardown.
SetupNoTeardown(st, k, cfg, inUse) ==
    SetupFrom(st, k, cfg, NewGen(k, inUse \cup st.poller \cup MapSockets(st.maps)), 1)

\* _setup_single_broker_sockets after the registry clean-up: teardown first,
\* then the five roles in order.
Setup(st, k, cfg, inUse) ==
    LET torn == Teardown(st, k)
    IN  SetupFrom(torn, k, cfg,
                  NewGen(k, inUse \cup torn.poller \cup MapSockets(torn.maps)), 1)

\* Variant used to test the properties: no registry clean-up.
KeepClient(cl, k) == cl

\* The registry clean-up at the top of _setup_single_broker_sockets.
ClearClient(cl, k) == IF k \in DOMAIN cl THEN Del(cl, k) ELSE cl

(***************************************************************************)
(* Command queue: connect_broker_sockets / disconnect_broker_sockets.      *)
(* asyncio.Queue() is unbounded, so put never waits.                       *)
(***************************************************************************)
\* Other coroutines run only while the receive loop is suspended: in poll, or
\* after it has ended.  (A recv on a socket the poll reported ready, the queue
\* get on a non-empty queue and the handler complete without suspending.)
LoopSuspended == loopPc \in {"start", "poll", "exited"}

Enqueue(cmd, max) ==
    /\ LoopSuspended
    /\ Len(queue) < max
    /\ queue' = Append(queue, cmd)
    /\ unfinished' = unfinished + 1
    /\ UNCHANGED <<routerVars, loopVars, call, stopVars, histVars, obsVars>>

connect_broker_sockets(KS, CS, max) ==
    \E k \in KS, cfg \in CS : Enqueue(ConnectCmd(k, cfg), max)

disconnect_broker_sockets(KS, max) ==
    \E k \in KS : Enqueue(DisconnectCmd(k), max)

(***************************************************************************)
(* Receive loop, poll and drain.                                           *)
(***************************************************************************)
\* run() and the first lines of _receive_loop: the flag is set, the loop starts.
LoopStart ==
    /\ loopPc = "start"
    /\ running' = TRUE
    /\ loopPc' = "poll"
    /\ UNCHANGED <<clients, responses, events, woken, maps, poller, queue, unfinished,
                   socks, call, stopVars, histVars, obsVars>>

\* socks = dict(await self._poller.poll(100)): at most n registered sockets
\* are ready.
PollReady(n) ==
    /\ loopPc = "poll"
    /\ \E ready \in SUBSET poller :
          /\ Cardinality(ready) <= n
          /\ socks' = ready
    /\ loopPc' = "drain"
    /\ UNCHANGED <<routerVars, queue, unfinished, call, stopVars, histVars, obsVars>>

PollReturn == PollReady(MaxReady)

\* poll raised ETERM after the context was terminated: the loop breaks.
PollTerminated ==
    /\ loopPc = "poll"
    /\ ctxTerm
    /\ loopPc' = "exited"
    /\ UNCHANGED <<routerVars, queue, unfinished, socks, call, stopVars, histVars, obsVars>>

\* Variant used to test the properties: the newest command first.
NewestCommand(q) == q[Len(q)]

\* The command the drain applies next: queue.get() takes the oldest.
NextCommand(q) == Head(q)

\* One turn of "while not queue.empty()": get, apply, task_done.
ApplyCommand ==
    /\ loopPc = "drain"
    /\ queue # <<>>
    /\ LET cmd == NextCommand(queue)
           st  == [maps |-> maps, poller |-> poller]
           new == IF cmd.kind = "CONNECT"
                  THEN Setup(st, cmd.key, cmd.config, socks)
                  ELSE Teardown(st, cmd.key)
       IN  /\ maps' = new.maps
           /\ poller' = new.poller
           /\ clients' = IF cmd.kind = "CONNECT" THEN ClearClient(clients, cmd.key)
                         ELSE clients
           /\ reg' = IF cmd.kind = "CONNECT" /\ reg[cmd.key] = "registered"
                     THEN [reg EXCEPT ![cmd.key] = "reconnected"] ELSE reg
    /\ queue' = Tail(queue)
    /\ unfinished' = unfinished - 1
    /\ UNCHANGED <<running, responses, events, woken, loopVars, call, stopVars, got,
                   obsVars>>

\* The roles i..n of a setup, in order.
RECURSIVE SetupUntil(_, _, _, _, _, _)
SetupUntil(st, k, cfg, g, i, n) ==
    IF i > n THEN st
    ELSE SetupUntil(SetupRole(st, k, Roles[i], cfg[Roles[i]], g), k, cfg, g, i + 1, n)

\* Where the loop is after one of the outer handlers ran: ETERM breaks; any
\* other error is logged and slept on, then "while self._running" is tested.
\* What the transport raises once the context is terminated is either.
AfterOuterHandler == {IF running THEN "poll" ELSE "exited"}
                         \cup (IF ctxTerm THEN {"exited"} ELSE {})

\* Variant used to test the properties: the error of a command leaves the loop.
ApplyRaisedPropagates ==
    /\ loopPc = "drain"
    /\ queue # <<>>
    /\ NextCommand(queue).kind = "CONNECT"
    /\ unfinished - Len(queue) < MaxLost
    /\ queue' = Tail(queue)
    /\ loopPc' = "exited"
    /\ socks' = {}
    /\ UNCHANGED <<routerVars, unfinished, call, stopVars, histVars, obsVars>>

\* A CONNECT whose application raises outside the handlers of
\* _setup_single_broker_sockets (config.get on a config that is no dict,
\* context.socket() failing at role n + 1): the registry clean-up, the teardown
\* and the roles 1..n are done, task_done() is not reached, the rest of the
\* iteration is skipped and the outer handler of the loop logs the error.
ApplyRaised ==
    /\ loopPc = "drain"
    /\ queue # <<>>
    /\ NextCommand(queue).kind = "CONNECT"
    /\ unfinished - Len(queue) < MaxLost
    /\ LET cmd  == NextCommand(queue)
           torn == Teardown([maps |-> maps, poller |-> poller], cmd.key)
           g    == NewGen(cmd.key, socks \cup torn.poller \cup MapSockets(torn.maps))
       IN  \E n \in 0..(Len(Roles) - 1) :
              LET new == SetupUntil(torn, cmd.key, cmd.config, g, 1, n)
              IN  /\ maps' = new.maps
                  /\ poller' = new.poller
                  /\ clients' = ClearClient(clients, cmd.key)
                  /\ reg' = IF reg[cmd.key] = "registered"
                            THEN [reg EXCEPT ![cmd.key] = "reconnected"] ELSE reg
    /\ queue' = Tail(queue)
    /\ loopPc' \in AfterOuterHandler
    /\ socks' = {}
    /\ UNCHANGED <<running, responses, events, woken, unfinished, call, stopVars, got,
                   obsVars>>

\* poll raised EAGAIN, another ZMQError or any other exception while the
\* flag is cleared: logged, slept on, and the loop ends at its test.  (With
\* the flag set the loop is back in poll, the state it was in.)
PollRaised ==
    /\ loopPc = "poll"
    /\ ~running
    /\ loopPc' = "exited"
    /\ UNCHANGED <<routerVars, queue, unfinished, socks, call, stopVars, histVars, obsVars>>

\* Variant used to test the properties: the drain may stop with commands left.
DrainLeave ==
    /\ loopPc = "drain"
    /\ loopPc' = "recv"
    /\ UNCHANGED <<routerVars, queue, unfinished, socks, call, stopVars, histVars, obsVars>>

\* The queue is empty: the loop goes on to the ready sockets.
DrainDone ==
    /\ loopPc = "drain"
    /\ queue = <<>>
    /\ loopPc' = "recv"
    /\ UNCHANGED <<routerVars, queue, unfinished, socks, call, stopVars, histVars, obsVars>>

(***************************************************************************)
(* Message classifier.  A registry/correlator state is                     *)
(* [clients, responses, woken]; sk is the key of the socket the frame came *)
(* in on (the broker_key argument of _process_message).                    *)
(***************************************************************************)
\* Event.set(): the waiter is scheduled once.
SetEvent(w, c) == IF c \in Range(w) THEN w ELSE Append(w, c)

\* await self._message_handler.handle_zmq_message(..., env): env is handed
\* to the message handler.
Forward(st, env) == [st EXCEPT !.fwd = Append(st.fwd, env)]

\* The envelope _process_message builds after an UNREGISTER; removed is NoKey
\* for None.
Unregistered(removed, sk) ==
    [type |-> "INTERNAL", event |-> "CLIENT_UNREGISTERED", broker_key |-> removed,
     request_id |-> NoRid, status |-> "", zmq_id_hex |-> sk]

\* Variant used to test the properties: an existing entry is not overwritten.
OnRegisterKeepFirst(st, msg, sk) ==
    IF msg.broker_key # NoKey
    THEN Forward(IF msg.broker_key \in DOMAIN st.clients THEN st
                 ELSE [st EXCEPT !.clients = Put(st.clients, msg.broker_key, sk)], msg)
    ELSE st

\* SYSTEM/REGISTER: needs a broker_key; records it under the socket's key and
\* forwards the envelope.
OnRegister(st, msg, sk) ==
    IF msg.broker_key # NoKey
    THEN Forward([st EXCEPT !.clients = Put(st.clients, msg.broker_key, sk)], msg)
    ELSE st

\* SYSTEM/UNREGISTER, the key to remove: the claimed key when its entry
\* matches the socket's key; none when a claimed key does not match; without
\* a claimed key, the first entry recorded for the socket's key.
UnregisterChoices(cl, msg, sk) ==
    IF msg.broker_key # NoKey /\ msg.broker_key \in DOMAIN cl /\ cl[msg.broker_key] = sk
    THEN {msg.broker_key}
    ELSE IF msg.broker_key # NoKey THEN {NoKey}
    ELSE IF \E k \in DOMAIN cl : cl[k] = sk
         THEN {k \in DOMAIN cl : cl[k] = sk}
         ELSE {NoKey}

\* SYSTEM/UNREGISTER: the entry is removed and the notification forwarded.
OnUnregister(st, removed, sk) ==
    Forward(IF removed # NoKey THEN [st EXCEPT !.clients = Del(st.clients, removed)] ELSE st,
            Unregistered(removed, sk))

\* Variant used to test the properties: the response sets the event of every
\* pending request.
OnResponseSetsAll(st, ev, msg) ==
    IF msg.request_id # NoRid
    THEN [st EXCEPT !.responses = Put(st.responses, msg.request_id, msg),
                    !.woken = st.woken \o
                              (IF "c1" \in Range(ev) \ Range(st.woken) THEN <<"c1">> ELSE <<>>) \o
                              (IF "c2" \in Range(ev) \ Range(st.woken) THEN <<"c2">> ELSE <<>>)]
    ELSE st

\* Variant used to test the properties: the response is stored but its event
\* is not set.
OnResponseNoSignal(st, ev, msg) ==
    IF msg.request_id # NoRid
    THEN [st EXCEPT !.responses = Put(st.responses, msg.request_id, msg)]
    ELSE st

\* RESPONSE with a request_id: the envelope is stored under the id; the Event
\* registered under the id, if any, is set.
OnResponse(st, ev, msg) ==
    IF msg.request_id # NoRid
    THEN [st EXCEPT !.responses = Put(st.responses, msg.request_id, msg),
                    !.woken = IF msg.request_id \in DOMAIN ev
                              THEN SetEvent(st.woken, ev[msg.request_id])
                              ELSE st.woken]
    ELSE st

\* Variant used to test the properties: a STREAM is correlated as a RESPONSE is.
ProcessMessageStream(st, ev, msg, sk, removed) ==
    IF msg.type = "SYSTEM" /\ msg.event = "REGISTER" THEN OnRegister(st, msg, sk)
    ELSE IF msg.type = "SYSTEM" /\ msg.event = "UNREGISTER" THEN OnUnregister(st, removed, sk)
    ELSE IF msg.type \in {"RESPONSE", "STREAM"} THEN Forward(OnResponse(st, ev, msg), msg)
    ELSE Forward(st, msg)

\* _process_message; removed is the key UNREGISTER removes (dict order decides
\* among several entries of one socket key).  RESPONSE, STREAM and every
\* other envelope are forwarded.
ProcessMessage(st, ev, msg, sk, removed) ==
    IF msg.type = "SYSTEM" /\ msg.event = "REGISTER" THEN OnRegister(st, msg, sk)
    ELSE IF msg.type = "SYSTEM" /\ msg.event = "UNREGISTER" THEN OnUnregister(st, removed, sk)
    ELSE IF msg.type = "RESPONSE" THEN Forward(OnResponse(st, ev, msg), msg)
    ELSE Forward(st, msg)

\* Frames the far side can send.
RegisterMsgs   == {Envelope("SYSTEM", "REGISTER", bk, NoRid, "") : bk \in Keys \cup {NoKey}}
UnregisterMsgs == {Envelope("SYSTEM", "UNREGISTER", bk, NoRid, "") : bk \in Keys \cup {NoKey}}
ResponseMsgs   == {Envelope("RESPONSE", "", NoKey, rid, "OK") : rid \in Rids \cup {NoRid}}
                  \cup {Envelope("RESPONSE", "", NoKey, "r1", "ERROR")}
StreamMsgs     == {Envelope("STREAM", "", NoKey, rid, "") : rid \in {"r1", NoRid}}
OtherMsgs      == {Envelope("EVENT", "TICK", NoKey, "r1", "")}
\* Envelopes of the last branch that look like handled ones: a SYSTEM event
\* that is neither REGISTER nor UNREGISTER, a REGISTER that is not SYSTEM.
UnhandledMsgs  == {Envelope("SYSTEM", "HEARTBEAT", "A", "r1", ""),
                   Envelope("REQUEST", "REGISTER", "B", NoRid, "")}

(***************************************************************************)
(* Frame repair and decoding.  A text is a sequence of tokens: the two     *)
(* braces and "m", which stands for the member "type":"EVENT".             *)
(***************************************************************************)
Chars == {"{", "}", "m"}
Texts == UNION {[1..n -> Chars] : n \in 0..MaxLen}

StartsWith(s, c) == Len(s) > 0 /\ s[1] = c
EndsWith(s, c)   == Len(s) > 0 /\ s[Len(s)] = c

\* Variant used to test the properties: at most one brace is added.
RepairEither(s) ==
    IF ~StartsWith(s, "{") THEN <<"{">> \o s
    ELSE IF ~EndsWith(s, "}") THEN Append(s, "}") ELSE s

\* The repair of _receive_loop: '{' is put in front of a text that does not
\* start with it, then '}' behind a text that does not end with it.
Repair(s) ==
    LET p == IF ~StartsWith(s, "{") THEN <<"{">> \o s ELSE s
    IN  IF ~EndsWith(p, "}") THEN Append(p, "}") ELSE p

\* json.loads on the texts of Texts: {} and {"type":"EVENT"} are the objects
\* these tokens can spell; any other text raises JSONDecodeError (<<>>).
JsonLoads(t) ==
    IF t = <<"{", "m", "}">> THEN <<Envelope("EVENT", "", NoKey, NoRid, "")>>
    ELSE IF t = <<"{", "}">> THEN <<Envelope("", "", NoKey, NoRid, "")>>
    ELSE <<>>

\* The lines of _receive_loop that repair the received text.
RepairText ==
    /\ wire.stage = "received"
    /\ wire' = [wire EXCEPT !.stage = "repaired", !.text = Repair(wire.raw)]
    /\ UNCHANGED <<routerVars, queue, unfinished, loopVars, call, stopVars, histVars,
                   frame, iso, ids, handler, mgr>>

\* json.loads(message_str): the envelope goes on to _process_message, or
\* JSONDecodeError is logged and the frame dropped.
DecodeText ==
    /\ wire.stage = "repaired"
    /\ wire' = [wire EXCEPT !.stage = IF JsonLoads(wire.text) # <<>> THEN "decoded" ELSE "dropped",
                            !.data = JsonLoads(wire.text)]
    /\ UNCHANGED <<routerVars, queue, unfinished, loopVars, call, stopVars, histVars,
                   frame, iso, ids, handler, mgr>>

(***************************************************************************)
(* Receive loop, the ready sockets.  The maps are visited in the order of  *)
(* Roles; a socket is read when it is in a map and was reported ready.     *)
(***************************************************************************)
ReadyIn(i) == {k \in DOMAIN maps[Roles[i]] : maps[Roles[i]][k] \in socks}
HasReady == \E i \in 1..Len(Roles) : ReadyIn(i) # {}
CurRole == CHOOSE i \in 1..Len(Roles) : ReadyIn(i) # {} /\ \A j \in 1..(i - 1) : ReadyIn(j) = {}

\* History kept for the properties: what the frame means for waiting callers
\* and for the registry.
GotAfter(msg) ==
    [c \in Callers |->
        IF call[c].pc = "waiting" /\ msg.type = "RESPONSE" /\ msg.request_id = call[c].rid
        THEN <<msg>> ELSE got[c]]
RegAfter(msg) ==
    IF msg.type = "SYSTEM" /\ msg.event = "REGISTER" /\ msg.broker_key # NoKey
    THEN [reg EXCEPT ![msg.broker_key] = "registered"] ELSE reg

\* No receive yet in this iteration.
NoFrame == [kind |-> "none", sock |-> <<>>, sk |-> NoKey, msg |-> Envelope("", "", NoKey, NoRid, ""),
            fwd |-> <<>>]

\* What a receive that yields no envelope can be: the text does not decode
\* even after the repair, or recv raised (EAGAIN, another ZMQError, any other
\* exception).
DropKinds == {"undecodable", "recv-error"}

\* socket.recv() returned a frame that decoded to msg: _process_message.
RecvMessage(Msgs) ==
    /\ loopPc = "recv"
    /\ HasReady
    /\ \E k \in ReadyIn(CurRole), msg \in Msgs :
         \E removed \in UnregisterChoices(clients, msg, k) :
            LET st  == [clients |-> clients, responses |-> responses, woken |-> woken,
                        fwd |-> <<>>]
                new == ProcessMessage(st, events, msg, k, removed)
            IN  /\ clients' = new.clients
                /\ responses' = new.responses
                /\ woken' = new.woken
                /\ socks' = socks \ {maps[Roles[CurRole]][k]}
                /\ got' = GotAfter(msg)
                /\ reg' = RegAfter(msg)
                /\ frame' = [kind |-> "message", sock |-> maps[Roles[CurRole]][k], sk |-> k,
                             msg |-> msg, fwd |-> new.fwd]
    /\ UNCHANGED <<running, events, maps, poller, queue, unfinished, loopPc, call, stopVars,
                   iso, pureVars>>

\* Variant used to test the properties: an exception of the message handler
\* leaves the receives and reaches the outer handler of the loop, which
\* abandons the iteration.
RecvHandlerRaisedPropagates(Msgs) ==
    /\ loopPc = "recv"
    /\ HasReady
    /\ \E k \in ReadyIn(CurRole), msg \in Msgs :
         \E removed \in UnregisterChoices(clients, msg, k) :
            LET st  == [clients |-> clients, responses |-> responses, woken |-> woken,
                        fwd |-> <<>>]
                new == ProcessMessage(st, events, msg, k, removed)
            IN  /\ new.fwd # <<>>
                /\ clients' = new.clients
                /\ responses' = new.responses
                /\ woken' = new.woken
                /\ got' = GotAfter(msg)
                /\ reg' = RegAfter(msg)
                /\ frame' = [kind |-> "handler-raised", sock |-> maps[Roles[CurRole]][k],
                             sk |-> k, msg |-> msg, fwd |-> new.fwd]
    /\ socks' = {}
    /\ loopPc' = "poll"
    /\ UNCHANGED <<running, events, maps, poller, queue, unfinished, call, stopVars,
                   iso, pureVars>>

\* socket.recv() returned a frame that decoded to msg and handle_zmq_message
\* raised on the envelope forwarded to it: the handler is awaited last in
\* each branch of _process_message, and the exception is logged by the inner
\* "except Exception" of the loop.
RecvHandlerRaised(Msgs) ==
    /\ loopPc = "recv"
    /\ HasReady
    /\ \E k \in ReadyIn(CurRole), msg \in Msgs :
         \E removed \in UnregisterChoices(clients, msg, k) :
            LET st  == [clients |-> clients, responses |-> responses, woken |-> woken,
                        fwd |-> <<>>]
                new == ProcessMessage(st, events, msg, k, removed)
            IN  /\ new.fwd # <<>>
                /\ clients' = new.clients
                /\ responses' = new.responses
                /\ woken' = new.woken
                /\ socks' = socks \ {maps[Roles[CurRole]][k]}
                /\ got' = GotAfter(msg)
                /\ reg' = RegAfter(msg)
                /\ frame' = [kind |-> "handler-raised", sock |-> maps[Roles[CurRole]][k],
                             sk |-> k, msg |-> msg, fwd |-> new.fwd]
    /\ UNCHANGED <<running, events, maps, poller, queue, unfinished, loopPc, call, stopVars,
                   iso, pureVars>>

\* Variant used to test the properties: a dropped frame unregisters the key
\* of its socket.
RecvDropUnregisters ==
    /\ loopPc = "recv"
    /\ HasReady
    /\ \E k \in ReadyIn(CurRole), why \in DropKinds :
          /\ socks' = socks \ {maps[Roles[CurRole]][k]}
          /\ frame' = [NoFrame EXCEPT !.kind = why, !.sock = maps[Roles[CurRole]][k], !.sk = k]
          /\ iso' = [c \in Callers |->
                       iso[c] \/ (why = "recv-error" /\ call[c].pc = "waiting" /\ call[c].key # k)]
          /\ clients' = ClearClient(clients, k)
    /\ UNCHANGED <<running, responses, events, woken, maps, poller, queue, unfinished, loopPc,
                   call, stopVars, histVars, pureVars>>

\* Variant used to test the properties: a failed receive ends the loop.
RecvAborts ==
    /\ loopPc = "recv"
    /\ HasReady
    /\ \E k \in ReadyIn(CurRole), why \in DropKinds :
          /\ socks' = {}
          /\ frame' = [NoFrame EXCEPT !.kind = why, !.sock = maps[Roles[CurRole]][k], !.sk = k]
          /\ iso' = [c \in Callers |->
                       iso[c] \/ (why = "recv-error" /\ call[c].pc = "waiting" /\ call[c].key # k)]
    /\ running' = FALSE
    /\ UNCHANGED <<clients, responses, events, woken, maps, poller, queue, unfinished, loopPc,
                   call, stopVars, histVars, pureVars>>

\* Variant used to test the properties: every socket the wait reported ready
\* is read, held in the maps or not.
RecvDroppedAnyReady ==
    /\ loopPc = "recv"
    /\ socks # {}
    /\ \E s \in socks, why \in DropKinds :
          /\ socks' = socks \ {s}
          /\ frame' = [NoFrame EXCEPT !.kind = why, !.sock = s, !.sk = s[1]]
          /\ iso' = [c \in Callers |->
                       iso[c] \/ (why = "recv-error" /\ call[c].pc = "waiting" /\ call[c].key # s[1])]
    /\ UNCHANGED <<routerVars, queue, unfinished, loopPc, call, stopVars, histVars, pureVars>>

\* The frame does not decode even after the repair, or recv raised EAGAIN or
\* another error: logged, the loop goes on.
RecvDropped ==
    /\ loopPc = "recv"
    /\ HasReady
    /\ \E k \in ReadyIn(CurRole), why \in DropKinds :
          /\ socks' = socks \ {maps[Roles[CurRole]][k]}
          /\ frame' = [NoFrame EXCEPT !.kind = why, !.sock = maps[Roles[CurRole]][k], !.sk = k]
          /\ iso' = [c \in Callers |->
                       iso[c] \/ (why = "recv-error" /\ call[c].pc = "waiting" /\ call[c].key # k)]
    /\ UNCHANGED <<routerVars, queue, unfinished, loopPc, call, stopVars, histVars, pureVars>>

\* recv raised ETERM: _running is cleared and the iteration of this map ends
\* (break); the later maps are still visited.
RecvTerminated ==
    /\ loopPc = "recv"
    /\ HasReady
    /\ ctxTerm
    /\ running' = FALSE
    /\ socks' = socks \ {maps[Roles[CurRole]][k] : k \in DOMAIN maps[Roles[CurRole]]}
    /\ \E k \in ReadyIn(CurRole) :
          frame' = [NoFrame EXCEPT !.kind = "terminated", !.sock = maps[Roles[CurRole]][k],
                                   !.sk = k]
    /\ UNCHANGED <<clients, responses, events, woken, maps, poller, queue, unfinished,
                   loopPc, call, stopVars, histVars, iso, pureVars>>

\* Variant used to test the properties: the loop goes on whatever the flag.
EndIterationGoesOn ==
    /\ loopPc = "recv"
    /\ ~HasReady
    /\ loopPc' = "poll"
    /\ socks' = {}
    /\ frame' = NoFrame
    /\ UNCHANGED <<routerVars, queue, unfinished, call, stopVars, histVars, iso, pureVars>>

\* All maps visited: "while self._running" is tested again.
EndIteration ==
    /\ loopPc = "recv"
    /\ ~HasReady
    /\ loopPc' = IF running THEN "poll" ELSE "exited"
    /\ socks' = {}
    /\ frame' = NoFrame
    /\ UNCHANGED <<routerVars, queue, unfinished, call, stopVars, histVars, iso, pureVars>>

(***************************************************************************)
(* Correlator: send_command_to_broker.                                     *)
(***************************************************************************)
CallIdle == [pc |-> "idle", key |-> NoKey, role |-> "AdminPort", rid |-> NoRid,
             sent |-> "no", result |-> <<>>]

\* The call has returned res to its caller.
Done(rec, res) == [rec EXCEPT !.pc = "done", !.result = <<res>>]

\* Variant used to test the properties: any open channel of the key will do.
ChannelOpenAnyRole(m, k, role) == k \in OpenKeys(m)

\* The guard of send_command_to_broker: the role's dict holds the key (a
\* socket held in a dict is never a closed one: teardown pops before it closes).
ChannelOpen(m, k, role) == k \in DOMAIN m[role]

\* self._response_events[request_id] = asyncio.Event()
RegisterPending(ev, rid, c) == Put(ev, rid, c)

\* finally: if request_id in self._response_events: del ...
DiscardPending(ev, rid) == IF rid \in DOMAIN ev THEN Del(ev, rid) ELSE ev

\* After the wait returned: the stored response, else an error result.
AwaitedResult(rs, rid) ==
    IF rid \in DOMAIN rs THEN rs[rid] ELSE ErrorResult("Resposta nao recebida")

\* _send_message: the frame went out ("ok"), or the transport raised and the
\* error was logged ("failed"); it returns normally to its caller either way.
SendMessage(sendOk) == IF sendOk THEN "ok" ELSE "failed"

\* A call: the request id is the caller's or is built from the command, the
\* key and the clock's second; either way a value of Rids.
Call(c, k, role, rid, sendOk) ==
    /\ call[c].pc = "idle"
    /\ LoopSuspended
    /\ LET rec == [CallIdle EXCEPT !.key = k, !.role = role]
       IN  IF k = NoKey
           THEN /\ call' = [call EXCEPT ![c] = Done(rec, ErrorResult("broker_key nao fornecida"))]
                /\ UNCHANGED events
           ELSE IF ~ChannelOpen(maps, k, role)
           THEN /\ call' = [call EXCEPT ![c] = Done(rec, ErrorResult("nao conectada"))]
                /\ UNCHANGED events
           ELSE /\ events' = RegisterPending(events, rid, c)
                /\ call' = [call EXCEPT ![c] = [rec EXCEPT !.pc = "waiting", !.rid = rid,
                                                          !.sent = SendMessage(sendOk)]]
    /\ got' = [got EXCEPT ![c] = <<>>]
    /\ iso' = [iso EXCEPT ![c] = FALSE]
    /\ UNCHANGED <<running, clients, responses, woken, maps, poller, queue, unfinished,
                   loopVars, stopVars, reg, frame, pureVars>>

send_command_to_broker(CS, KS, RS, OKS) ==
    \E c \in CS, k \in KS, role \in RS, rid \in Rids, sendOk \in OKS :
       Call(c, k, role, rid, sendOk)

\* Variant used to test the properties: a caller whose Event was set goes on
\* waiting until a response is stored under its id.
WakeOnlyWithResponse(c) ==
    /\ call[c].pc = "waiting"
    /\ LoopSuspended
    /\ woken # <<>>
    /\ Head(woken) = c
    /\ call[c].rid \in DOMAIN responses
    /\ woken' = Tail(woken)
    /\ call' = [call EXCEPT ![c] = Done(call[c], AwaitedResult(responses, call[c].rid))]
    /\ responses' = Del(responses, call[c].rid)
    /\ events' = DiscardPending(events, call[c].rid)
    /\ UNCHANGED <<running, clients, maps, poller, queue, unfinished, loopVars,
                   stopVars, histVars, obsVars>>

\* The Event the caller waits on was set: the wait returns.  Waiters resume
\* in the order their Events were set.
Wake(c) ==
    /\ call[c].pc = "waiting"
    /\ LoopSuspended
    /\ woken # <<>>
    /\ Head(woken) = c
    /\ woken' = Tail(woken)
    /\ call' = [call EXCEPT ![c] = Done(call[c], AwaitedResult(responses, call[c].rid))]
    /\ responses' = IF call[c].rid \in DOMAIN responses
                    THEN Del(responses, call[c].rid) ELSE responses
    /\ events' = DiscardPending(events, call[c].rid)
    /\ UNCHANGED <<running, clients, maps, poller, queue, unfinished, loopVars,
                   stopVars, histVars, obsVars>>

\* wait_for gave up after 5.0 s: asyncio.TimeoutError.
Timeout(c) ==
    /\ call[c].pc = "waiting"
    /\ LoopSuspended
    /\ c \notin Range(woken)
    /\ call' = [call EXCEPT ![c] = Done(call[c], ErrorResult("Timeout na resposta"))]
    /\ events' = DiscardPending(events, call[c].rid)
    /\ UNCHANGED <<running, clients, responses, woken, maps, poller, queue, unfinished,
                   loopVars, stopVars, histVars, obsVars>>

\* The caller has its result and may call again.
Returned(c) ==
    /\ call[c].pc = "done"
    /\ LoopSuspended
    /\ call' = [call EXCEPT ![c] = CallIdle]
    /\ got' = [got EXCEPT ![c] = <<>>]
    /\ iso' = [iso EXCEPT ![c] = FALSE]
    /\ UNCHANGED <<routerVars, queue, unfinished, loopVars, stopVars, reg, frame, pureVars>>

(***************************************************************************)
(* stop().                                                                 *)
(***************************************************************************)
\* The keys stop() puts a DISCONNECT for: keys of the five dicts that are
\* also keys of self._clients.
StopKeys(m, cl) == {k \in OpenKeys(m) : k \in DOMAIN cl}

\* The orders a set or dict can be iterated in.
Orders(S) == {q \in [1..Cardinality(S) -> S] : \A i, j \in DOMAIN q : q[i] = q[j] => i = j}

RECURSIVE SetAll(_, _)
SetAll(w, cs) == IF cs = <<>> THEN w ELSE SetAll(SetEvent(w, Head(cs)), Tail(cs))

\* stop() up to "await wait_for(queue.join(), 2.0)".
StopRequest ==
    /\ stopPc = "idle"
    /\ LoopSuspended
    /\ running' = FALSE
    /\ \E evs \in Orders({events[rid] : rid \in DOMAIN events}) : woken' = SetAll(woken, evs)
    /\ \E order \in Orders(StopKeys(maps, clients)) :
          /\ queue' = queue \o [i \in DOMAIN order |-> DisconnectCmd(order[i])]
          /\ unfinished' = unfinished + Len(order)
    /\ stopPc' = "joining"
    /\ UNCHANGED <<clients, responses, events, maps, poller, loopVars, call, ctxTerm,
                   histVars, obsVars>>

\* join() returned (no unfinished task) or its 2.0 s ran out: context.term().
StopTerm ==
    /\ stopPc = "joining"
    /\ LoopSuspended
    /\ ctxTerm' = TRUE
    /\ stopPc' = "done"
    /\ UNCHANGED <<routerVars, queue, unfinished, loopVars, call, histVars, obsVars>>

(***************************************************************************)
(* Request ids.  request_id = request_id or                                *)
(* f"{command.lower()}_{broker_key}_{int(time.time())}".  An id is the     *)
(* tuple of the parts of that string; the clock counts half seconds.       *)
(***************************************************************************)
Commands == {"PING", "ping", "POSITIONS"}

\* str.lower() on the commands of Commands.
Lower(cmd) == IF cmd = "PING" THEN "ping"
              ELSE IF cmd = "POSITIONS" THEN "positions" ELSE cmd

\* int(time.time()) at clock reading t: the whole seconds.
TicksPerSecond == 2
Second(t) == t \div TicksPerSecond

\* The request_id argument: None (<<>>), or a string of the caller's.
GivenIds == {<<>>, <<"ping", "A", 0>>, <<"mine">>}

\* The id a call uses.
RequestId(given, cmd, k, t) ==
    IF given # <<>> THEN given ELSE <<Lower(cmd), k, Second(t)>>

\* Time passes.
Tick ==
    /\ ids.now < MaxTime
    /\ ids' = [ids EXCEPT !.now = ids.now + 1]
    /\ UNCHANGED <<routerVars, queue, unfinished, loopVars, call, stopVars, histVars,
                   frame, iso, wire, handler, mgr>>

\* A call gets past its guard and fixes its request id.
IssueId ==
    /\ Len(ids.issued) < MaxCalls
    /\ \E given \in GivenIds, cmd \in Commands, k \in Keys :
          ids' = [ids EXCEPT !.issued =
                     Append(ids.issued,
                            [generated |-> given = <<>>, command |-> cmd, key |-> k,
                             at |-> ids.now,
                             rid |-> RequestId(given, cmd, k, ids.now)])]
    /\ UNCHANGED <<routerVars, queue, unfinished, loopVars, call, stopVars, histVars,
                   frame, iso, wire, handler, mgr>>

(***************************************************************************)
(* The message handler, core/zmq_message_handler.py: handle_zmq_message.   *)
(* An envelope here is the decoded JSON object with the fields the handler *)
(* branches on; a field is absent, null or has a value.                    *)
(***************************************************************************)
Absent == "<absent>"
Null   == "<null>"

\* dict.get(field, default): the default only for an absent key.
Get(msg, field, default) == IF msg[field] = Absent THEN default ELSE msg[field]

\* Envelopes the router forwards: any type and event, a request_id that is
\* absent, null or a string, a data member that is absent, null, a list of
\* objects or a list of numbers.
HandlerMsgs ==
    [type       : {"RESPONSE", "STREAM", "EVENT", Absent},
     event      : {"OHLC_INDICATOR_UPDATE", "HEARTBEAT", Absent},
     request_id : {Absent, Null, "ping_A_1", "r1"},
     data       : {Absent, Null, "objects", "numbers"}]

\* handle_zmq_message on msg: "returned", or "raised" when a statement of the
\* branch taken raises (the handler has no try).  STREAM/OHLC_INDICATOR_UPDATE
\* iterates data and calls entry.get on each entry; RESPONSE tests
\* "ping_" in request_id.
Handle(msg) ==
    LET type  == Get(msg, "type", Null)
        event == Get(msg, "event", Null)
    IN  IF type = "STREAM" /\ event = "OHLC_INDICATOR_UPDATE"
        THEN IF Get(msg, "data", "objects") \in {Null, "numbers"}
             THEN "raised" ELSE "returned"
        ELSE IF type = "RESPONSE"
        THEN IF Get(msg, "request_id", "") = Null THEN "raised" ELSE "returned"
        ELSE "returned"

\* The router awaits handle_zmq_message with the forwarded envelope.
HandleZmqMessage ==
    /\ handler.stage = "forwarded"
    /\ handler' = [handler EXCEPT !.stage = Handle(handler.msg)]
    /\ UNCHANGED <<routerVars, queue, unfinished, loopVars, call, stopVars, histVars,
                   frame, iso, wire, ids, mgr>>

(***************************************************************************)
(* The BrokerManager, core/broker_manager.py.  A manager state is          *)
(* [brokers, connected, procs, last, op]: self.brokers (key -> config),    *)
(* self.connected_brokers (key -> flag), the keys of self.mt5_processes,   *)
(* the kind of the last command each key had enqueued to the router, and   *)
(* the call that has just returned with its result.  A call yields          *)
(* [m, cmds, ret]: the new state, the commands it enqueues, in order, and  *)
(* what it returns (NoKey for None).  The files and directories the        *)
(* manager keeps are not part of the state: what they make a call do is an *)
(* input of the call.                                                      *)
(***************************************************************************)
NoOp == <<>>
NoMgr == [brokers |-> EmptyDict, connected |-> EmptyDict, procs |-> {},
          last |-> [k \in Keys |-> "none"], op |-> NoOp]

\* is_connected: self.connected_brokers.get(key, False).
is_connected(m, k) == k \in DOMAIN m.connected /\ m.connected[k]

Result(m, cmds, ret) == [m |-> m, cmds |-> cmds, ret |-> ret]

\* What terminating the MT5 process of a key can come to: the process had
\* already exited, terminate() and wait() went well, wait() timed out and
\* the process was killed, or another exception was raised.
Terms == {"exited", "ok", "timeout", "error"}

\* disconnect_broker.
DisconnectBroker(m, k, term) ==
    IF k \notin DOMAIN m.brokers THEN Result(m, <<>>, FALSE)
    ELSE LET failed == k \in m.procs /\ term = "error"
         IN  Result([m EXCEPT !.connected = Put(m.connected, k, FALSE),
                              !.procs = IF failed THEN m.procs ELSE m.procs \ {k},
                              !.last[k] = "DISCONNECT"],
                    <<DisconnectCmd(k)>>,
                    ~failed)

\* What starting a key can meet: its MT5 process is running, the instance is
\* not on disk, Popen starts the process, or Popen raises.
Starts == {"running", "no-instance", "started", "popen-error"}

\* connect_broker.
ConnectBroker(m, k, how) ==
    IF k \notin DOMAIN m.brokers THEN Result(m, <<>>, FALSE)
    ELSE IF k \in m.procs /\ how = "running"
    THEN Result([m EXCEPT !.connected = Put(m.connected, k, TRUE), !.last[k] = "CONNECT"],
                <<ConnectCmd(k, m.brokers[k])>>, TRUE)
    ELSE IF how \in {"no-instance", "popen-error"} THEN Result(m, <<>>, FALSE)
    ELSE Result([m EXCEPT !.connected = Put(m.connected, k, TRUE),
                          !.procs = m.procs \cup {k},
                          !.last[k] = "CONNECT"],
                <<ConnectCmd(k, m.brokers[k])>>, TRUE)

\* add_broker; ok is whether setup_portable_instance made the instance.
AddBroker(m, k, cfg, ok) ==
    IF k \in DOMAIN m.brokers \/ ~ok THEN Result(m, <<>>, NoKey)
    ELSE Result([m EXCEPT !.brokers = Put(m.brokers, k, cfg),
                          !.connected = Put(m.connected, k, FALSE)],
                <<>>, k)

\* Variant used to test the properties: a connected key is removed without
\* being disconnected.
RemoveBrokerNoDisconnect(m, k, term) ==
    IF k \notin DOMAIN m.brokers THEN Result(m, <<>>, FALSE)
    ELSE Result([m EXCEPT !.brokers = Del(m.brokers, k),
                          !.connected = Del(m.connected, k)],
                <<>>, TRUE)

\* remove_broker.
RemoveBroker(m, k, term) ==
    IF k \notin DOMAIN m.brokers THEN Result(m, <<>>, FALSE)
    ELSE LET d == IF is_connected(m, k) THEN DisconnectBroker(m, k, term)
                  ELSE Result(m, <<>>, TRUE)
         IN  Result([d.m EXCEPT !.brokers = Del(d.m.brokers, k),
                                !.connected = Del(d.m.connected, k)],
                    d.cmds, TRUE)

\* modify_broker; new is the key made of the new broker name and login.
ModifyBroker(m, old, new, cfg, term) ==
    IF old \notin DOMAIN m.brokers THEN Result(m, <<>>, NoKey)
    ELSE LET d == IF is_connected(m, old) THEN DisconnectBroker(m, old, term)
                  ELSE Result(m, <<>>, TRUE)
             popped == Del(d.m.brokers, old)
         IN  IF new # old /\ new \in DOMAIN popped
             THEN Result(d.m, d.cmds, NoKey)
             ELSE Result([d.m EXCEPT
                            !.brokers = Put(popped, new, cfg),
                            !.connected =
                               IF old \in DOMAIN d.m.connected
                               THEN Put(Del(d.m.connected, old), new, d.m.connected[old])
                               ELSE Put(d.m.connected, new, FALSE)],
                         d.cmds, new)

\* A call of the manager: it runs between two steps of the loop, and the
\* tasks it creates put its commands on the queue in the order created.
MgrCall(name, k, res) ==
    /\ mgr.op = NoOp
    /\ LoopSuspended
    /\ Len(queue) < MaxQueue
    /\ mgr' = [res.m EXCEPT !.op = <<[name |-> name, key |-> k, ret |-> res.ret]>>]
    /\ queue' = queue \o res.cmds
    /\ unfinished' = unfinished + Len(res.cmds)
    /\ UNCHANGED <<routerVars, loopVars, call, stopVars, histVars, frame, iso, wire, ids,
                   handler>>

add_broker == \E k \in Keys, cfg \in Configs, ok \in BOOLEAN :
                  MgrCall("add_broker", k, AddBroker(mgr, k, cfg, ok))
remove_broker == \E k \in Keys, term \in Terms :
                     MgrCall("remove_broker", k, RemoveBroker(mgr, k, term))
modify_broker == \E old \in Keys, new \in Keys, cfg \in Configs, term \in Terms :
                     MgrCall("modify_broker", old, ModifyBroker(mgr, old, new, cfg, term))
connect_broker == \E k \in Keys, how \in Starts :
                      MgrCall("connect_broker", k, ConnectBroker(mgr, k, how))
disconnect_broker == \E k \in Keys, term \in Terms :
                         MgrCall("disconnect_broker", k, DisconnectBroker(mgr, k, term))

\* The caller of the manager has its result.
MgrReturned ==
    /\ mgr.op # NoOp
    /\ mgr' = [mgr EXCEPT !.op = NoOp]
    /\ UNCHANGED <<routerVars, queue, unfinished, loopVars, call, stopVars, histVars, frame,
                   iso, wire, ids, handler>>

(***************************************************************************)
(* Specifications.                                                         *)
(***************************************************************************)
InitRouter ==
    /\ running = FALSE
    /\ clients = EmptyDict
    /\ responses = EmptyDict
    /\ events = EmptyDict
    /\ woken = <<>>
    /\ maps = [r \in RoleSet |-> EmptyDict]
    /\ poller = {}
    /\ queue = <<>>
    /\ unfinished = 0
    /\ loopPc = "start"
    /\ socks = {}
    /\ call = [c \in Callers |-> CallIdle]
    /\ stopPc = "idle"
    /\ ctxTerm = FALSE
    /\ got = [c \in Callers |-> <<>>]
    /\ reg = [k \in Keys |-> "never"]
    /\ frame = NoFrame
    /\ iso = [c \in Callers |-> FALSE]

Init == InitRouter /\ wire = NoWire /\ ids = NoIds /\ handler = NoHandled /\ mgr = NoMgr

\* A text has been received (socket.recv() and decode('utf-8')).
InitRepair ==
    /\ InitRouter
    /\ wire \in {[stage |-> "received", raw |-> s, text |-> s, data |-> <<>>] : s \in Texts}
    /\ ids = NoIds
    /\ handler = NoHandled
    /\ mgr = NoMgr

\* The receive loop while the context lives.
Loop(Msgs) ==
    \/ LoopStart
    \/ PollReturn
    \/ ApplyCommand
    \/ DrainDone
    \/ RecvMessage(Msgs)
    \/ RecvDropped
    \/ EndIteration

\* Shutdown, and what the loop sees of it.
Shutdown ==
    \/ StopRequest
    \/ StopTerm
    \/ PollTerminated
    \/ RecvTerminated

\* Channel lifecycle: commands for both keys (key B with one config),
\* registration traffic claiming key A or no key on the sockets of either
\* key, shutdown.
NextChan ==
    \/ connect_broker_sockets({"A"}, Configs, MaxQueue)
    \/ connect_broker_sockets({"B"}, {CfgMixed}, MaxQueue)
    \/ disconnect_broker_sockets(Keys, MaxQueue)
    \/ Loop({m \in RegisterMsgs \cup UnregisterMsgs : m.broker_key # "B"})
    \/ Shutdown

SpecChan == Init /\ [][NextChan]_vars

\* Correlator: two callers on key A whose requests go out, responses and
\* streams, shutdown.
NextCorr ==
    \/ connect_broker_sockets({"A"}, {CfgTwo}, MaxQueue)
    \/ disconnect_broker_sockets({"A"}, MaxQueue)
    \/ Loop(ResponseMsgs \cup StreamMsgs \cup OtherMsgs)
    \/ send_command_to_broker(Callers, {"A"}, {"AdminPort"}, {TRUE})
    \/ \E c \in Callers : Wake(c)
    \/ \E c \in Callers : Timeout(c)
    \/ \E c \in Callers : Returned(c)
    \/ Shutdown

SpecCorr == Init /\ [][NextCorr]_vars

\* One caller, any key and role, requests that go out or fail on the wire;
\* key A is connected and disconnected, key B never is.
NextSend ==
    \/ connect_broker_sockets({"A"}, Configs, MaxQueue)
    \/ disconnect_broker_sockets({"A"}, MaxQueue)
    \/ Loop(ResponseMsgs)
    \/ send_command_to_broker({"c1"}, Keys \cup {NoKey}, SendRoles, BOOLEAN)
    \/ Wake("c1")
    \/ Timeout("c1")
    \/ Returned("c1")

SpecSend == Init /\ [][NextSend]_vars

\* Isolation: keys A and B connected, one caller on B's TradePort, responses
\* and failing receives on the sockets of both keys.
NextIso ==
    \/ connect_broker_sockets({"A"}, {CfgTwo}, MaxQueue)
    \/ connect_broker_sockets({"B"}, {CfgMixed}, MaxQueue)
    \/ Loop(ResponseMsgs)
    \/ send_command_to_broker({"c1"}, {"B"}, {"TradePort"}, {TRUE})
    \/ Wake("c1")
    \/ Timeout("c1")
    \/ Returned("c1")

SpecIso == Init /\ [][NextIso]_vars

\* Registry: keys A and B connected, registration traffic claiming either
\* key or none on the sockets of either key.
NextReg ==
    \/ connect_broker_sockets({"A"}, {CfgTwo}, MaxQueue)
    \/ connect_broker_sockets({"B"}, {CfgMixed}, MaxQueue)
    \/ Loop(RegisterMsgs \cup UnregisterMsgs)

SpecReg == Init /\ [][NextReg]_vars

\* Streams and unhandled envelopes: key A connected and registered, one
\* caller on A's AdminPort, streams and unhandled envelopes that carry the
\* caller's request id, and the response to it.
NextStream ==
    \/ connect_broker_sockets({"A"}, {CfgTwo}, MaxQueue)
    \/ Loop(StreamMsgs \cup OtherMsgs \cup UnhandledMsgs
            \cup {Envelope("SYSTEM", "REGISTER", "A", NoRid, ""),
                  Envelope("RESPONSE", "", NoKey, "r1", "OK")})
    \/ send_command_to_broker({"c1"}, {"A"}, {"AdminPort"}, {TRUE})
    \/ Wake("c1")
    \/ Timeout("c1")
    \/ Returned("c1")

SpecStream == Init /\ [][NextStream]_vars

\* Two callers with request ids of their own (c1 uses r1, c2 uses r2) on key
\* A, commands for A and responses under either id meanwhile.
NextPair ==
    \/ connect_broker_sockets({"A"}, {CfgTwo}, MaxQueue)
    \/ disconnect_broker_sockets({"A"}, MaxQueue)
    \/ Loop({Envelope("RESPONSE", "", NoKey, rid, "OK") : rid \in Rids})
    \/ Call("c1", "A", "AdminPort", "r1", TRUE)
    \/ Call("c2", "A", "AdminPort", "r2", TRUE)
    \/ \E c \in Callers : Wake(c)
    \/ \E c \in Callers : Timeout(c)
    \/ \E c \in Callers : Returned(c)

SpecPair == Init /\ [][NextPair]_vars

\* Faults: commands for key A whose application can raise, receives that
\* fail, polls that raise, shutdown.
NextFail ==
    \/ connect_broker_sockets({"A"}, Configs, MaxQueue)
    \/ disconnect_broker_sockets({"A"}, MaxQueue)
    \/ Loop({Envelope("SYSTEM", "REGISTER", "A", NoRid, "")})
    \/ ApplyRaised
    \/ PollRaised
    \/ Shutdown

SpecFail == Init /\ [][NextFail]_vars

\* Cooperative stop: commands for key A, registrations and failing receives,
\* shutdown.  The loop's task is scheduled fairly: poll(100) returns after
\* 100 ms at the latest, and the drain and the receives of an iteration run
\* without waiting for anything.
StopMsgs == {Envelope("SYSTEM", "REGISTER", "A", NoRid, "")}

NextStop ==
    \/ connect_broker_sockets({"A"}, {CfgTwo}, MaxQueue)
    \/ Loop(StopMsgs)
    \/ Shutdown

LoopRuns == Loop(StopMsgs) \/ PollTerminated \/ RecvTerminated

SpecStop == Init /\ [][NextStop]_vars /\ WF_vars(LoopRuns)

\* Python values of two types: the registry holds str socket keys, the
\* router hands broker_key.encode('utf-8') to the handler.  A str and a bytes
\* never compare equal.
PyStr(s) == <<"str", s>>
Encode(s) == <<"bytes", s>>

\* handle_zmq_message, the identity: the keys of the first registry entry
\* whose value equals client_id_bytes (any of them, in dict order), else the
\* envelope's own broker_key.
IdentifiedBrokerKey(cl, client_id_bytes, message) ==
    LET matching == {key \in DOMAIN cl : PyStr(cl[key]) = client_id_bytes}
    IN  IF matching # {} THEN matching ELSE {message.broker_key}

\* An envelope has been forwarded to the message handler.
InitHandler ==
    /\ InitRouter
    /\ wire = NoWire
    /\ ids = NoIds
    /\ handler \in {[stage |-> "forwarded", msg |-> m] : m \in HandlerMsgs}
    /\ mgr = NoMgr

NextHandler == HandleZmqMessage

SpecHandler == InitHandler /\ [][NextHandler]_vars

\* Termination seen by a receive: key A with its two channels, polls that
\* report both ready, shutdown.
NextTerm ==
    \/ connect_broker_sockets({"A"}, {CfgTwo}, MaxQueue)
    \/ LoopStart
    \/ PollReady(MaxBothReady)
    \/ ApplyCommand
    \/ DrainDone
    \/ RecvMessage(StopMsgs)
    \/ RecvDropped
    \/ EndIteration
    \/ Shutdown

SpecTerm == Init /\ [][NextTerm]_vars

\* Live channels: keys A and B connected, commands for key A, polls that
\* report two sockets ready.
NextLive ==
    \/ connect_broker_sockets({"A"}, {CfgTwo}, MaxQueue)
    \/ connect_broker_sockets({"B"}, {CfgMixed}, MaxQueue)
    \/ disconnect_broker_sockets({"A"}, MaxQueue)
    \/ LoopStart
    \/ PollReady(MaxBothReady)
    \/ ApplyCommand
    \/ DrainDone
    \/ RecvMessage(StopMsgs)
    \/ RecvDropped
    \/ EndIteration

SpecLive == Init /\ [][NextLive]_vars

\* A waiting caller: one caller on key A, one response, commands for key A, shutdown.  The loop keeps running while it
\* can (it awaits nothing but the poll, which returns after 100 ms at the
\* latest), and a caller whose Event is set or whose 5.0 s ran out resumes at
\* one of the loop's waits.
WaitMsgs == {Envelope("RESPONSE", "", NoKey, "r1", "OK")}

NextWait ==
    \/ connect_broker_sockets({"A"}, {CfgTwo}, MaxQueue)
    \/ disconnect_broker_sockets({"A"}, MaxQueue)
    \/ Loop(WaitMsgs)
    \/ Call("c1", "A", "AdminPort", "r1", TRUE)
    \/ Wake("c1")
    \/ Timeout("c1")
    \/ Returned("c1")
    \/ Shutdown

WaitRuns == Loop(WaitMsgs) \/ PollTerminated \/ RecvTerminated

SpecWait ==
    /\ Init
    /\ [][NextWait]_vars
    /\ WF_vars(WaitRuns)
    /\ SF_vars(Wake("c1") \/ Timeout("c1"))

\* A raising handler: key A with its two channels, polls that report both
\* ready, a caller on key A, registrations and responses on which the
\* handler returns or raises.
ContainMsgs == {Envelope("SYSTEM", "REGISTER", "A", NoRid, ""),
                Envelope("RESPONSE", "", NoKey, "r1", "OK")}

NextContain ==
    \/ connect_broker_sockets({"A"}, {CfgTwo}, MaxQueue)
    \/ LoopStart
    \/ PollReady(MaxBothReady)
    \/ ApplyCommand
    \/ DrainDone
    \/ RecvMessage(ContainMsgs)
    \/ RecvHandlerRaised(ContainMsgs)
    \/ RecvDropped
    \/ EndIteration
    \/ Call("c1", "A", "AdminPort", "r1", TRUE)
    \/ Wake("c1")
    \/ Timeout("c1")
    \/ Returned("c1")

SpecContain == Init /\ [][NextContain]_vars

\* The manager in front of the router: the five calls on keys A and B, the
\* loop applying what they enqueue.
NextMgr ==
    \/ add_broker
    \/ remove_broker
    \/ modify_broker
    \/ connect_broker
    \/ disconnect_broker
    \/ MgrReturned
    \/ LoopStart
    \/ PollReturn
    \/ ApplyCommand
    \/ DrainDone
    \/ RecvDropped
    \/ EndIteration

SpecMgr == Init /\ [][NextMgr]_vars

\* Request ids: calls fix their ids while time passes.
NextIds ==
    \/ Tick
    \/ IssueId

SpecIds == Init /\ [][NextIds]_vars

\* One received text through the repair and the decoder.
NextRepair ==
    \/ RepairText
    \/ DecodeText

SpecRepair == InitRepair /\ [][NextRepair]_vars

\* Command queue: bursts of commands for one key.
NextQueue ==
    \/ connect_broker_sockets({"A"}, Configs, MaxBurst)
    \/ disconnect_broker_sockets({"A"}, MaxBurst)
    \/ Loop(RegisterMsgs)
    \/ Shutdown

SpecQueue == Init /\ [][NextQueue]_vars

(***************************************************************************)
(* Properties of the correlator.                                           *)
(***************************************************************************)
\* C1 (round trip): a call whose request went out and that returns, and for
\* whose request id a RESPONSE was processed while it waited, returns that
\* envelope, and when it has returned no pending entry exists under its
\* request id.
C1_RoundTrip ==
    [][\A c \in Callers :
          (/\ call[c].pc = "waiting"
           /\ call[c].sent = "ok"
           /\ call'[c].pc = "done"
           /\ got[c] # <<>>)
              => call'[c].result = got[c] /\ call[c].rid \notin DOMAIN events']_vars

\* C2 (timeout): a call that returns from its wait, and for whose request id
\* no RESPONSE was processed while it waited, returns a result with status
\* ERROR, and when it has returned no pending entry exists under its request id.
C2_TimeoutIsError ==
    [][\A c \in Callers :
          call[c].pc = "waiting" /\ call'[c].pc = "done" /\ got[c] = <<>>
              => /\ call'[c].result[1].status = "ERROR"
                 /\ call[c].rid \notin DOMAIN events']_vars

\* C3 (unknown key): a call for a key that has no open channel of the
\* requested role returns in the same step with status ERROR, nothing is sent,
\* no pending entry is created, and the correlator, the channel maps, the
\* poller, the registry and the command queue are unchanged.
C3_UnknownKey ==
    [][\A c \in Callers :
          (/\ call[c].pc = "idle"
           /\ call'[c].pc # "idle"
           /\ call'[c].key \notin DOMAIN maps[call'[c].role])
          => /\ call'[c].pc = "done"
             /\ call'[c].result[1].status = "ERROR"
             /\ call'[c].sent = "no"
             /\ UNCHANGED <<events, responses, woken, maps, poller, clients, queue>>]_vars

\* C3, the case: a call for TradePort of key A returned while A had its
\* AdminPort channel open but no TradePort channel.
C3_Witness ==
    /\ call["c1"].pc = "done"
    /\ call["c1"].key = "A"
    /\ call["c1"].role = "TradePort"
    /\ call["c1"].result[1].status = "ERROR"
    /\ "A" \in DOMAIN maps["AdminPort"]
    /\ "A" \notin DOMAIN maps["TradePort"]

\* C4 (transport error on send): a call whose transmission failed has
\* returned a result with status ERROR (it is not left waiting for the
\* response timeout) and no pending entry remains under its request id.
C4_SendErrorSynchronous ==
    \A c \in Callers :
        call[c].sent = "failed"
            => /\ call[c].pc = "done"
               /\ call[c].result[1].status = "ERROR"
               /\ call[c].rid \notin DOMAIN events

(***************************************************************************)
(* Properties of the channel lifecycle.                                    *)
(***************************************************************************)
\* C5 (channel-set invariant): the sockets held in the five maps are exactly
\* the sockets registered with the poller (in every state, running or not).
C5_ChannelSet == MapSockets(maps) = poller

\* C5, the case: key A was set up with one failing role (TradePort, skipped)
\* while key B holds channels of another config.
C5_Witness ==
    /\ DOMAIN maps["AdminPort"] = {"A"}
    /\ "A" \in DOMAIN maps["DataPort"]
    /\ "A" \notin DOMAIN maps["TradePort"]
    /\ "B" \in DOMAIN maps["LivePort"]

\* C6 (reconnect clears identity): from the CONNECT(K) applied after K was
\* registered until the next REGISTER claiming K, the registry has no entry
\* under K.
C6_ReconnectClears == \A k \in Keys : reg[k] = "reconnected" => k \notin DOMAIN clients

\* C6, the case: A was registered, then reconnected, and has channels again.
C6_Witness == reg["A"] = "reconnected" /\ "A" \in OpenKeys(maps)

\* The loop takes a DISCONNECT from the head of the queue and applies it.
DisconnectStep ==
    /\ loopPc = "drain"
    /\ queue # <<>>
    /\ Head(queue).kind = "DISCONNECT"
    /\ queue' = Tail(queue)

\* C7 (registry lifetime): once the loop has applied DISCONNECT(K) the
\* registry holds no entry under K.
C7_DisconnectClearsRegistry ==
    [][DisconnectStep => Head(queue).key \notin DOMAIN clients']_vars

\* C8 (idempotent teardown): applying DISCONNECT(K) when K has no open channel
\* completes (the command is marked done and the drain goes on) and leaves
\* the maps, the poller and the pending requests unchanged.
C8_IdempotentTeardown ==
    [][DisconnectStep /\ Head(queue).key \notin OpenKeys(maps)
          => /\ UNCHANGED <<maps, poller, events, responses, woken, clients>>
             /\ unfinished' = unfinished - 1
             /\ loopPc' = "drain"]_vars

\* C8, the case: the loop is about to apply DISCONNECT(A), A has no channel
\* and B has channels registered.
C8_Witness ==
    /\ loopPc = "drain"
    /\ queue # <<>>
    /\ Head(queue) = DisconnectCmd("A")
    /\ "A" \notin OpenKeys(maps)
    /\ "B" \in OpenKeys(maps)
    /\ poller # {}

(***************************************************************************)
(* Properties of the command queue and of stop().                          *)
(***************************************************************************)
\* The roles cmd.key has a channel for after the step are the roles cmd opens
\* (none for a DISCONNECT), and the channels of the other keys are untouched.
Applied(cmd) ==
    /\ {r \in RoleSet : cmd.key \in DOMAIN maps'[r]} = {r \in RoleSet : cmd.config[r] = "ok"}
    /\ \A r \in RoleSet : \A k \in Keys \ {cmd.key} :
          /\ k \in DOMAIN maps'[r] <=> k \in DOMAIN maps[r]
          /\ k \in DOMAIN maps[r] => maps'[r][k] = maps[r][k]

C10_StopDisconnectsAll ==
    [][stopPc = "idle" /\ stopPc' = "joining"
          => \A k \in OpenKeys(maps) : DisconnectCmd(k) \in Range(queue')]_vars

(***************************************************************************)
(* Properties of shutdown.                                                 *)
(***************************************************************************)
\* C11 (shutdown ordering): at the moment stop() terminates the context,
\* teardown has been applied to every key: the five maps are empty.
C11_TeardownBeforeTerm ==
    [][stopPc = "joining" /\ stopPc' = "done" => OpenKeys(maps) = {}]_vars

\* C12 (shutdown releases waiters): when stop() runs, the Event of every
\* caller suspended in send_command_to_broker is set, so that the caller
\* resumes instead of waiting on.
C12_StopSignalsWaiters ==
    [][stopPc = "idle" /\ stopPc' = "joining"
          => \A c \in Callers : call[c].pc = "waiting" => c \in Range(woken')]_vars

(***************************************************************************)
(* Properties of the receive loop.                                         *)
(***************************************************************************)
\* The order of the positions of the loop.
LoopOrder == {<<"start", "poll">>, <<"poll", "drain">>, <<"drain", "recv">>,
              <<"recv", "poll">>, <<"recv", "exited">>, <<"poll", "exited">>}

\* A receive is made in this step, and it did not report the context
\* terminated.
ReceiveStep == frame' # frame /\ frame'.kind \notin {"none", "terminated"}

C14_Isolation ==
    [][/\ (frame' # frame /\ frame'.kind = "recv-error")
            => /\ loopPc = "recv" /\ loopPc' = "recv"
               /\ socks' = socks \ {frame'.sock}
               /\ UNCHANGED <<running, clients, responses, events, woken, maps, poller,
                              queue, call, got>>
       /\ \A c \in Callers :
            (call[c].pc = "waiting" /\ call'[c].pc = "done" /\ iso[c] /\ got[c] # <<>>)
                => call'[c].result = got[c]]_vars

\* C14, the case: the caller on B waited while a receive failed on a socket
\* of A, and returned B's RESPONSE.
C14_Witness ==
    /\ call["c1"].pc = "done"
    /\ call["c1"].key = "B"
    /\ iso["c1"]
    /\ got["c1"] # <<>>
    /\ call["c1"].result = got["c1"]

\* C15 (frame repair): the text handed to the decoder is the received text
\* with '{' put in front iff the received text does not start with '{' and
\* '}' put behind iff the text, with that prefix if any, does not end with
\* '}'; a text delimited on both ends is handed on unchanged; and the texts
\* {"type":"EVENT" and "type":"EVENT"} both decode to the envelope
\* {"type":"EVENT"}.
C15_FrameRepair ==
    wire.stage \in {"repaired", "decoded", "dropped"} =>
        LET prefix == IF StartsWith(wire.raw, "{") THEN <<>> ELSE <<"{">>
            suffix == IF EndsWith(prefix \o wire.raw, "}") THEN <<>> ELSE <<"}">>
        IN  /\ wire.text = prefix \o wire.raw \o suffix
            /\ StartsWith(wire.raw, "{") /\ EndsWith(wire.raw, "}") => wire.text = wire.raw
            /\ (wire.stage # "repaired" /\ wire.raw \in {<<"{", "m">>, <<"m", "}">>})
                  => /\ wire.stage = "decoded"
                     /\ wire.data = <<Envelope("EVENT", "", NoKey, NoRid, "")>>

\* C15, the case: the text {"type":"EVENT" was received, repaired and decoded.
C15_Witness ==
    /\ wire.stage = "decoded"
    /\ wire.raw = <<"{", "m">>
    /\ wire.text = <<"{", "m", "}">>

Classified(t, ev) ==
    /\ ReceiveStep
    /\ frame'.kind = "message"
    /\ frame'.msg.type = t
    /\ frame'.msg.event = ev

\* C17 (REGISTER classification): a SYSTEM/REGISTER without broker_key leaves
\* the registry unchanged and nothing is forwarded; with a broker_key the
\* registry afterwards maps that key to the key of the socket the frame came
\* in on, whatever it mapped it to before, its other entries are unchanged,
\* and the envelope itself is forwarded exactly once.
C17_RegisterClassification ==
    [][Classified("SYSTEM", "REGISTER") =>
          LET bk == frame'.msg.broker_key
          IN  IF bk = NoKey
              THEN clients' = clients /\ frame'.fwd = <<>>
              ELSE /\ DOMAIN clients' = DOMAIN clients \cup {bk}
                   /\ clients'[bk] = frame'.sk
                   /\ \A k \in DOMAIN clients \ {bk} : clients'[k] = clients[k]
                   /\ frame'.fwd = <<frame'.msg>>]_vars

\* C17, the case: a REGISTER claiming A came in on a socket of B; the
\* registry maps A to B.
C17_Witness ==
    /\ frame.kind = "message"
    /\ frame.msg = Envelope("SYSTEM", "REGISTER", "A", NoRid, "")
    /\ frame.sk = "B"
    /\ "A" \in DOMAIN clients
    /\ clients["A"] = "B"
    /\ frame.fwd = <<frame.msg>>

\* C18 (UNREGISTER classification): the key is resolved by the claimed key
\* when that key is mapped to the key of the inbound socket, and in every
\* other case by reverse lookup of the inbound socket's key; the resolved
\* entry is removed and one INTERNAL/CLIENT_UNREGISTERED envelope carrying the
\* resolved key is forwarded; when no key resolves, nothing is removed and the
\* envelope carries no key.
C18_UnregisterClassification ==
    [][Classified("SYSTEM", "UNREGISTER") =>
          LET bk == frame'.msg.broker_key
              sk == frame'.sk
              resolved == IF bk # NoKey /\ bk \in DOMAIN clients /\ clients[bk] = sk
                          THEN {bk}
                          ELSE {k \in DOMAIN clients : clients[k] = sk}
          IN  IF resolved = {}
              THEN clients' = clients /\ frame'.fwd = <<Unregistered(NoKey, sk)>>
              ELSE \E k \in resolved :
                      /\ clients' = Del(clients, k)
                      /\ frame'.fwd = <<Unregistered(k, sk)>>]_vars


\* A RESPONSE envelope is received and classified in this step.
ResponseStep ==
    /\ ReceiveStep
    /\ frame'.kind = "message"
    /\ frame'.msg.type = "RESPONSE"

\* C19 (RESPONSE classification): every RESPONSE envelope, with or without
\* request_id, matched or not, is forwarded to the handler exactly once; when
\* its request_id is that of a registered pending request, the envelope is
\* afterwards stored under that id and the request's event is set.
C19_ResponseClassification ==
    [][ResponseStep =>
          LET rid == frame'.msg.request_id
          IN  /\ frame'.fwd = <<frame'.msg>>
              /\ (rid # NoRid /\ rid \in DOMAIN events) =>
                     /\ rid \in DOMAIN responses'
                     /\ responses'[rid] = frame'.msg
                     /\ events[rid] \in Range(woken')
                     /\ events' = events]_vars

\* C19, the case: the caller waits under r1, the RESPONSE for r1 has been
\* stored and forwarded and the caller's event is set.
C19_Witness ==
    /\ frame.kind = "message"
    /\ frame.msg.type = "RESPONSE"
    /\ frame.msg.request_id = "r1"
    /\ call["c1"].pc = "waiting"
    /\ call["c1"].rid = "r1"
    /\ "r1" \in DOMAIN responses
    /\ responses["r1"] = frame.msg
    /\ "c1" \in Range(woken)
    /\ frame.fwd = <<frame.msg>>

\* C20 (stale responses): a RESPONSE whose request_id is that of no registered
\* pending request is forwarded to the handler and leaves the pending-request
\* table and the stored-response table as they were.
C20_StaleResponseNoEffect ==
    [][ResponseStep /\ frame'.msg.request_id \notin DOMAIN events =>
          /\ frame'.fwd = <<frame'.msg>>
          /\ events' = events
          /\ responses' = responses]_vars


\* An envelope of neither SYSTEM/REGISTER, SYSTEM/UNREGISTER nor RESPONSE is
\* received and classified in this step.
UncorrelatedStep ==
    /\ ReceiveStep
    /\ frame'.kind = "message"
    /\ frame'.msg.type # "RESPONSE"
    /\ ~(frame'.msg.type = "SYSTEM" /\ frame'.msg.event \in {"REGISTER", "UNREGISTER"})

\* C21 (STREAM and unrecognised traffic): a STREAM envelope, and any envelope
\* that is neither SYSTEM/REGISTER, SYSTEM/UNREGISTER nor RESPONSE, is
\* forwarded to the handler exactly once and leaves the pending requests, the
\* stored responses, the set events, the waiting callers and the registry as
\* they were, whatever request_id or broker_key it carries.
C21_StreamNotCorrelated ==
    [][UncorrelatedStep =>
          /\ frame'.fwd = <<frame'.msg>>
          /\ UNCHANGED <<events, responses, woken, clients, call>>]_vars

\* C21, the case: a STREAM carrying r1 was forwarded while the caller waits
\* under r1 with a registered key; the caller is not resolved.
C21_Witness ==
    /\ frame.kind = "message"
    /\ frame.msg.type = "STREAM"
    /\ frame.msg.request_id = "r1"
    /\ frame.fwd = <<frame.msg>>
    /\ call["c1"].pc = "waiting"
    /\ call["c1"].rid = "r1"
    /\ "r1" \in DOMAIN events
    /\ "r1" \notin DOMAIN responses
    /\ "c1" \notin Range(woken)
    /\ "A" \in DOMAIN clients


(***************************************************************************)
(* Properties of the request ids.                                          *)
(***************************************************************************)
\* C22 (request ids): a request id that send_command_to_broker generated is
\* the id of no other call, including another call for the same command and
\* key made at nearly the same time.
C22_GeneratedIdsUnique ==
    \A i, j \in DOMAIN ids.issued :
        (i # j /\ ids.issued[i].generated) => ids.issued[i].rid # ids.issued[j].rid


(***************************************************************************)
(* Properties of callers and loop together.                                *)
(***************************************************************************)
\* Callers suspended in their wait.
Waiting == {c \in Callers : call[c].pc = "waiting"}

\* C23 (callers and loop do not block each other): with any number of callers
\* suspended, the loop's poll returns, a queued command is applied and a
\* ready socket is read, none of which changes a caller's state; and a
\* RESPONSE sets the event of the caller waiting under its request id and of
\* no other caller, whatever the order of the responses, so that the caller
\* that resumes returns the response with its own id.
C23_NoMutualBlocking ==
    [][/\ (Waiting # {} /\ loopPc = "poll") => ENABLED PollReturn
       /\ (Waiting # {} /\ loopPc = "drain" /\ queue # <<>>) => ENABLED ApplyCommand
       /\ (Waiting # {} /\ loopPc = "drain" /\ queue = <<>>) => ENABLED DrainDone
       /\ (Waiting # {} /\ loopPc = "recv" /\ HasReady) => ENABLED RecvMessage({Envelope("RESPONSE", "", NoKey, "r1", "OK")})
       /\ (loopPc' # loopPc \/ (queue # <<>> /\ queue' = Tail(queue)) \/ ReceiveStep)
             => call' = call
       /\ ResponseStep =>
             LET mine == {c \in Waiting : call[c].rid = frame'.msg.request_id}
             IN  /\ Range(woken') = Range(woken) \cup mine
                 /\ \A c \in mine : got'[c] = <<frame'.msg>>
                 /\ \A c \in Callers \ mine : got'[c] = got[c]
       /\ \A c \in Callers :
             (call[c].pc = "waiting" /\ call'[c].pc = "done" /\ c \in Range(woken))
                => /\ call'[c].result = got[c]
                   /\ call'[c].result[1].request_id = call[c].rid
                   /\ \A d \in Callers \ {c} : call'[d] = call[d]]_vars

\* C23, the case: both callers wait, the response for c2 came before the one
\* for c1, and a command waits in the queue.
C23_Witness ==
    /\ Waiting = Callers
    /\ woken = <<"c2", "c1">>
    /\ got["c1"] # <<>> /\ got["c1"][1].request_id = "r1"
    /\ got["c2"] # <<>> /\ got["c2"][1].request_id = "r2"
    /\ queue # <<>>


(***************************************************************************)
(* Properties of the loop's end and of the command accounting.             *)
(***************************************************************************)
\* C24 (loop termination causes): the loop ends only in a step in which the
\* flag is cleared or the context terminated, the flag is cleared only by
\* stop() or after the context was terminated, and so the loop never ends
\* before stop() was called: not by a frame that does not decode, a failed
\* receive, a command whose application raised or a poll that raised.
C24_TerminationCauses ==
    [][/\ (loopPc # "exited" /\ loopPc' = "exited") =>
              /\ ~running \/ ctxTerm
              /\ stopPc # "idle"
       /\ (running /\ ~running') =>
              \/ stopPc = "idle" /\ stopPc' = "joining"
              \/ ctxTerm]_vars

\* C24, the case: the application of a command raised (a taken command was
\* never marked done), a receive failed in this iteration, and the loop runs.
C24_Witness ==
    /\ unfinished > Len(queue)
    /\ frame.kind \in DropKinds
    /\ loopPc = "recv"
    /\ running
    /\ stopPc = "idle"


\* C30 (command accounting): every command taken from the queue is marked
\* done in the step that applies it, also when applying it raises, so the
\* count of unfinished tasks is the number of commands still in the queue
\* and is zero whenever the queue is empty (join() then returns at once).
C30_CommandAccounting ==
    [][/\ (queue # <<>> /\ queue' = Tail(queue)) => unfinished' = unfinished - 1
       /\ queue' = <<>> => unfinished' = 0]_vars


(***************************************************************************)
(* Properties of the callers' pending entries.                             *)
(***************************************************************************)
\* C29 (every suspended caller stays registered): each caller that is still
\* waiting has a pending entry under its request id, and that entry is the
\* Event the caller waits on, also when two calls in flight use one id.
C29_WaitingIsRegistered ==
    \A c \in Callers :
        call[c].pc = "waiting"
            => call[c].rid \in DOMAIN events /\ events[call[c].rid] = c


(***************************************************************************)
(* Properties of the setup.                                                *)
(***************************************************************************)
\* C26 (setup replaces, never duplicates): in every reachable state the
\* poller holds at most one socket per broker key and role, and each socket
\* it holds is the one the role's dict holds under that key: no socket of an
\* earlier connection of the key is still registered.  (A socket is closed
\* where it is unregistered, so the registered sockets are the open ones.)
C26_SetupReplaces ==
    /\ \A s, t \in poller : (s[1] = t[1] /\ s[2] = t[2]) => s = t
    /\ \A s \in poller : s[1] \in DOMAIN maps[s[2]] /\ maps[s[2]][s[1]] = s

\* C26, the case: A holds the three channels of a second connection, made
\* while a socket of its first connection was still reported ready.
C26_Witness ==
    /\ poller = {<<"A", "LivePort", 1>>, <<"A", "TradePort", 1>>, <<"A", "StrPort", 1>>}
    /\ \E s \in socks : s[1] = "A" /\ s[3] = 0

\* A CONNECT for key k with config cfg is applied in this step.
ConnectApplied(k, cfg) ==
    /\ loopPc = "drain"
    /\ queue # <<>>
    /\ Head(queue) = ConnectCmd(k, cfg)
    /\ queue' = Tail(queue)
    /\ unfinished' = unfinished - 1

\* C27 (partial connectivity): after a CONNECT(K, config) is applied, K has a
\* registered channel for exactly the roles whose port is present and
\* connects; a role with a missing port or a failing connect has none, and
\* the roles after it are still opened.  The command is marked done, the
\* loop stays in its drain and the flag is untouched.
C27_PartialConnectivity ==
    [][\A k \in Keys, cfg \in Configs :
          ConnectApplied(k, cfg) =>
             /\ \A r \in RoleSet :
                   IF cfg[r] = "ok"
                   THEN k \in DOMAIN maps'[r] /\ maps'[r][k] \in poller'
                   ELSE k \notin DOMAIN maps'[r]
             /\ Cardinality({s \in poller' : s[1] = k})
                   = Cardinality({r \in RoleSet : cfg[r] = "ok"})
             /\ loopPc' = "drain"
             /\ running' = running]_vars

\* C27, the case: a CONNECT for A was applied whose config has no AdminPort
\* and a DataPort that fails to connect before its three good roles; the
\* command is marked done and the loop is still in its drain.
C27_Witness ==
    /\ {r \in RoleSet : "A" \in DOMAIN maps[r]} = {"LivePort", "TradePort", "StrPort"}
    /\ Cardinality(poller) = 3
    /\ unfinished = Len(queue)
    /\ loopPc = "drain"


C28_HandlerNeverRaises == handler.stage # "raised"


(***************************************************************************)
(* Properties of the registry across a reconnect.                          *)
(***************************************************************************)
\* C31 (no stale identity refers to a reconnected endpoint): when a
\* CONNECT(K) has been applied, the registry has no entry under K and no
\* entry, under any claimed key, that was recorded through a socket of K.
C31_NoStaleIdentity ==
    [][\A k \in Keys, cfg \in Configs :
          ConnectApplied(k, cfg) =>
             \A x \in DOMAIN clients' : x # k /\ clients'[x] # k]_vars


(***************************************************************************)
(* Properties of the receives.                                             *)
(***************************************************************************)
\* C32 (context termination stops receiving): once a receive of this
\* iteration reported the context terminated, the loop makes no further
\* receive on any socket, and it leaves the iteration only to end.
C32_NoReceiveAfterTermination ==
    [][frame.kind = "terminated" =>
          /\ frame' = frame \/ frame' = NoFrame
          /\ loopPc' # loopPc => loopPc' = "exited"]_vars


\* C33 (receive only from live channels): every receive is made on a socket
\* that, at the moment of the receive, is held in the channel maps, is
\* registered with the poller and was reported ready by the wait of this
\* iteration; a ready socket that a command of the drain closed or replaced
\* is not in the maps any more and is never read.
C33_ReceiveOnlyLive ==
    [][(frame' # frame /\ frame'.kind # "none") =>
          /\ frame'.sock \in MapSockets(maps) \cap poller \cap socks
          /\ maps[frame'.sock[2]][frame'.sock[1]] = frame'.sock
          /\ socks' \cap (socks \ MapSockets(maps)) = socks \ MapSockets(maps)]_vars

\* C33, the case: the wait reported two sockets ready, a command of the drain
\* closed or replaced one of them, the other one was read and the closed
\* one is still unread.
C33_Witness ==
    /\ loopPc = "recv"
    /\ frame.kind = "message"
    /\ frame.sock \in MapSockets(maps)
    /\ socks \ MapSockets(maps) # {}
    /\ socks \cap MapSockets(maps) = {}


(***************************************************************************)
(* Properties of the waiting callers.                                      *)
(***************************************************************************)
\* C34 (every call returns): a caller that registered its request and waits
\* does return a result, whatever happens meanwhile (its key disconnected or
\* reconnected, the loop ended, stop() requested, no response at all); a waiting caller leaves the wait only with a
\* result, and when it does no pending entry is left under its request id.
C34_CallReturns ==
    /\ [][\A c \in Callers :
            (call[c].pc = "waiting" /\ call'[c] # call[c]) =>
               /\ call'[c].pc = "done"
               /\ call'[c].result # <<>>
               /\ call[c].rid \notin DOMAIN events']_vars
    /\ (call["c1"].pc = "waiting") ~> (call["c1"].pc = "done")

\* C34, the case: stop() was requested and the context terminated while a
\* caller waited for a response that never came; the caller has returned an
\* error result and no pending entry is left.
C34_Witness ==
    /\ ctxTerm
    /\ call["c1"].pc = "done"
    /\ call["c1"].result = <<ErrorResult("Resposta nao recebida")>>
    /\ responses = EmptyDict
    /\ events = EmptyDict


(***************************************************************************)
(* Properties of a raising handler.                                        *)
(***************************************************************************)
\* C35 (handler failure contained): when the message handler raises on a
\* forwarded envelope, the loop stays in the receives of the same iteration
\* with only that socket taken off the ready ones, the flag, the maps and the
\* poller as they were; the effect the router applied for the envelope is
\* kept (a REGISTER's mapping is recorded, a RESPONSE is stored under its id
\* and the Event of the caller waiting under that id is set); and the caller
\* that returns after a RESPONSE was processed for its id while it waited,
\* with the handler raising or not, returns that RESPONSE.
C35_HandlerFailureContained ==
    [][/\ (frame' # frame /\ frame'.kind = "handler-raised") =>
            /\ loopPc' = "recv"
            /\ running' = running
            /\ maps' = maps
            /\ poller' = poller
            /\ socks' = socks \ {frame'.sock}
            /\ (frame'.msg.type = "SYSTEM" /\ frame'.msg.event = "REGISTER") =>
                  /\ frame'.msg.broker_key \in DOMAIN clients'
                  /\ clients'[frame'.msg.broker_key] = frame'.sk
            /\ (frame'.msg.type = "RESPONSE" /\ frame'.msg.request_id # NoRid) =>
                  /\ frame'.msg.request_id \in DOMAIN responses'
                  /\ responses'[frame'.msg.request_id] = frame'.msg
                  /\ \A c \in Callers :
                        (call[c].pc = "waiting" /\ call[c].rid = frame'.msg.request_id) =>
                           c \in Range(woken')
       /\ \A c \in Callers :
            (call[c].pc = "waiting" /\ call'[c].pc = "done" /\ got[c] # <<>>) =>
               call'[c].result = got[c]]_vars

\* C35, the case: the handler raised on the RESPONSE of the waiting caller,
\* read from the first of two ready sockets; the RESPONSE is stored, the
\* caller's Event is set and the second ready socket is still to be read.
C35_Witness ==
    /\ loopPc = "recv"
    /\ frame.kind = "handler-raised"
    /\ frame.msg.type = "RESPONSE"
    /\ call["c1"].pc = "waiting"
    /\ "c1" \in Range(woken)
    /\ "A" \in DOMAIN clients
    /\ socks \cap MapSockets(maps) # {}


\* C36 (handler identity resolution): when the socket key the router passes
\* to the handler with a forwarded envelope is the value of an entry of the
\* registry, the handler attributes the envelope to the key of such an entry;
\* otherwise it attributes it to the envelope's own broker_key.
C36_IdentityResolution ==
    [][(frame' # frame /\ frame'.fwd # <<>>) =>
          \A i \in DOMAIN frame'.fwd :
             \A who \in IdentifiedBrokerKey(clients', Encode(frame'.sk), frame'.fwd[i]) :
                LET registered == {key \in DOMAIN clients' : clients'[key] = frame'.sk}
                IN  IF registered # {} THEN who \in registered
                    ELSE who = frame'.fwd[i].broker_key]_vars


(***************************************************************************)
(* Properties of the BrokerManager.                                        *)
(***************************************************************************)
\* A call of the manager returns in this step.
MgrStep(name) == mgr.op = NoOp /\ mgr'.op # NoOp /\ mgr'.op[1].name = name

\* C37 (failed modify leaves the endpoint untouched): when modify_broker of a
\* known key fails (the new key is the key of another broker), the registry,
\* the connection flags and the router's channels are as before the call and
\* no command was enqueued.
C37_FailedModifyUntouched ==
    [][(MgrStep("modify_broker") /\ mgr'.op[1].key \in DOMAIN mgr.brokers
           /\ mgr'.op[1].ret = NoKey) =>
          /\ mgr'.brokers = mgr.brokers
          /\ mgr'.connected = mgr.connected
          /\ queue' = queue
          /\ maps' = maps]_vars

\* C38 (connection status tracks the registry): every key marked connected is
\* a key of the registry; connect_broker and disconnect_broker on an unknown
\* key return False, enqueue nothing and change no flag; a command the
\* manager enqueues is recorded as the last one of its key; and a key of the
\* registry is marked connected exactly when the last command enqueued for it
\* is a CONNECT.
C38_StatusTracksRegistry ==
    /\ [](/\ \A k \in DOMAIN mgr.connected : mgr.connected[k] => k \in DOMAIN mgr.brokers
          /\ \A k \in DOMAIN mgr.brokers : is_connected(mgr, k) <=> mgr.last[k] = "CONNECT")
    /\ [][/\ ((MgrStep("connect_broker") \/ MgrStep("disconnect_broker"))
                 /\ mgr'.op[1].key \notin DOMAIN mgr.brokers) =>
               /\ mgr'.op[1].ret = FALSE
               /\ queue' = queue
               /\ mgr'.connected = mgr.connected
               /\ mgr'.brokers = mgr.brokers
          /\ Len(queue') > Len(queue) =>
               /\ mgr'.last[queue'[Len(queue')].key] = queue'[Len(queue')].kind
               /\ \A k \in Keys \ {queue'[Len(queue')].key} : mgr'.last[k] = mgr.last[k]
          /\ Len(queue') <= Len(queue) => mgr'.last = mgr.last]_vars

\* C38, the case: key A was connected, then renamed to B by modify_broker,
\* which disconnected it first; B is in the registry, not marked connected,
\* A's last command is a DISCONNECT and a connect_broker on the now unknown
\* key A has just returned False.
C38_Witness ==
    /\ DOMAIN mgr.brokers = {"B"}
    /\ ~is_connected(mgr, "B")
    /\ mgr.last["A"] = "DISCONNECT"
    /\ mgr.last["B"] = "none"
    /\ "A" \in mgr.procs
    /\ mgr.op # NoOp
    /\ mgr.op[1].name = "connect_broker"
    /\ mgr.op[1].key = "A"
    /\ mgr.op[1].ret = FALSE
    /\ queue = <<>>

====
